---- MODULE Spec2Model ----
(***************************************************************************)
(* A model of the grand-luxury-tree scene: the hand-gesture controller     *)
(* (HandGestureController.tsx), the host application's mode handlers       *)
(* (App.tsx) and the per-frame ornament animation (GrandTree.tsx).         *)
(*                                                                         *)
(* Real numbers are fixed-point integers: a value v stands for v / Unit.   *)
(* Positions, weights, factors, progress and frame deltas (seconds) all    *)
(* use that scale; divisions round to the nearest integer as IEEE          *)
(* arithmetic rounds to the nearest representable value.                   *)
(***************************************************************************)
EXTENDS Integers, Sequences, FiniteSets, TLC

(***************************************************************************)
(* Bounds of the model.                                                    *)
(***************************************************************************)
\* resolution of the fixed-point arithmetic: 1.0 is Unit
Unit == 1000
\* number of inference callbacks recorded in one behaviour
MaxCallbacks == 7
\* number of inference results delivered after teardown
MaxLate == 1
\* number of host events the event trail remembers
TrailLen == 3
\* number of frames rendered in a behaviour that counts its frames
MaxFrames == 3
\* number of frames of the camera controller in one behaviour
MaxCameraFrames == 4
\* number of times start() re-schedules itself in one behaviour
MaxWaits == 2
\* number of frames a behaviour of the drawn scene renders
MaxDrawnFrames == 3
\* number of instances of the layered field a behaviour builds
LayerCount == 50

(***************************************************************************)
(* Arithmetic helpers.                                                     *)
(***************************************************************************)
\* the fraction n/d in fixed point
Frac(n, d) == (n * Unit) \div d

\* a / b rounded to the nearest integer (b > 0)
RDiv(a, b) == (2 * a + b) \div (2 * b)

Abs(a) == IF a < 0 THEN -a ELSE a

Min(a, b) == IF a < b THEN a ELSE b

Max(a, b) == IF a > b THEN a ELSE b

Last(s) == s[Len(s)]

(***************************************************************************)
(* HandGestureController.tsx                                               *)
(***************************************************************************)
HandGesture == {"open", "closed", "unknown"}

MIN_GESTURE_FRAMES == 3

clamp(value, min, max) == Min(max, Max(min, value))

\* A finger other than the thumb counts as extended when its tip lies above
\* its PIP joint by more than 0.02 (y grows downward in the image).
FingerExtended(finger) == finger.tip < finger.pip - Frac(2, 100)

\* The number of extended fingers among index, middle, ring and little.
RECURSIVE ExtendedCount(_)
ExtendedCount(fingers) ==
  IF fingers = <<>> THEN 0
  ELSE (IF FingerExtended(Head(fingers)) THEN 1 ELSE 0) + ExtendedCount(Tail(fingers))

\* The thumb test mirrors with the handedness label; a missing label reads
\* as 'Right'.
ThumbExtended(label, thumbTip, thumbIp) ==
  IF label = "Left" THEN thumbTip > thumbIp + Frac(1, 100)
  ELSE thumbTip < thumbIp - Frac(1, 100)

\* openFingers = extendedCount + (thumbExtended ? 1 : 0)
OpenFingers(l) ==
  ExtendedCount(l.fingers)
    + (IF ThumbExtended(l.label, l.thumbTip, l.thumbIp) THEN 1 ELSE 0)

\* palmSize = Math.max(0.08, distance(wrist, middleMcp))
palmSize(l) == Max(Frac(8, 100), l.palm)

RECURSIVE Sum(_)
Sum(s) == IF s = <<>> THEN 0 ELSE Head(s) + Sum(Tail(s))

\* the mean of the distances from the wrist to the four fingertips
avgTipDistance(l) == RDiv(Sum(l.tips), Len(l.tips))

\* The two comparisons of the distance heuristic: avgTipDistance against
\* palmSize * 1.65 and palmSize * 1.15, with both sides scaled by Unit.
ByDistance(l) ==
  IF avgTipDistance(l) * Unit > palmSize(l) * Frac(165, 100) THEN "open"
  ELSE IF avgTipDistance(l) * Unit < palmSize(l) * Frac(115, 100) THEN "closed"
  ELSE "unknown"

\* the centroid of the five palm landmarks
PalmCenter(points) ==
  <<RDiv(Sum([k \in DOMAIN points |-> points[k][1]]), Len(points)),
    RDiv(Sum([k \in DOMAIN points |-> points[k][2]]), Len(points))>>

getGestureByDistance(l) ==
  IF ~l.present
  THEN [gesture |-> "unknown", center |-> <<Frac(1, 2), Frac(1, 2)>>]
  ELSE [gesture |-> ByDistance(l), center |-> PalmCenter(l.palmPoints)]

\* getGesture(results): l is what it reads of results.multiHandLandmarks[0]
\* and results.multiHandedness[0]
getGesture(l) ==
  IF ~l.present
  THEN [gesture |-> "unknown", center |-> <<Frac(1, 2), Frac(1, 2)>>]
  ELSE [gesture |-> IF OpenFingers(l) >= 4 THEN "open"
                    ELSE IF OpenFingers(l) <= 1 THEN "closed"
                    ELSE ByDistance(l),
        center |-> PalmCenter(l.palmPoints)]

\* The state onMove delivers when no hand is present, or start() failed.
NeutralMove == [x |-> 0, y |-> 0, active |-> FALSE]

\* The movement state computed from the palm centre of a detected hand.
MoveOf(center) ==
  [x |-> clamp((center[1] - Frac(1, 2)) * 2, -Unit, Unit),
   y |-> clamp((center[2] - Frac(1, 2)) * 2, -Unit, Unit),
   active |-> TRUE]

\* The label shown for a classification.
LabelOf(gesture) ==
  IF gesture = "open" THEN "Open hand"
  ELSE IF gesture = "closed" THEN "Closed hand" ELSE "Hand detected"

ActiveChangeOnAppear(active, hasHand, reported) ==
  IF hasHand /\ ~active THEN TRUE ELSE reported

\* What the host's handActive is after the callback compared hasHand with
\* activeRef.current: onActiveChange(hasHand) is called when they differ.
ActiveChange(active, hasHand, reported) ==
  IF hasHand # active THEN hasHand ELSE reported

\* The debounce refs, as one record.
Refs(stable, frames, last) == [stable |-> stable, frames |-> frames, last |-> last]

NoHandKeepsFrames(refs) == [refs EXCEPT !.stable = "unknown"]

NoHandClearsLast(refs) ==
  [refs EXCEPT !.stable = "unknown", !.frames = 0, !.last = "unknown"]

\* The refs after a result without a hand.
NoHandRefs(refs) == [refs EXCEPT !.stable = "unknown", !.frames = 0]

StableFromZero(refs, gesture) ==
  IF gesture # refs.stable
  THEN [refs EXCEPT !.stable = gesture, !.frames = 0]
  ELSE [refs EXCEPT !.frames = refs.frames + 1]

StableKeepsCount(refs, gesture) ==
  [refs EXCEPT !.stable = gesture, !.frames = refs.frames + 1]

\* The streak update for a classified hand.
StableRefs(refs, gesture) ==
  IF gesture # refs.stable
  THEN [refs EXCEPT !.stable = gesture, !.frames = 1]
  ELSE [refs EXCEPT !.frames = refs.frames + 1]

ShouldEmitEarly(refs, gesture) ==
  /\ gesture # "unknown"
  /\ refs.frames >= MIN_GESTURE_FRAMES - 1
  /\ gesture # refs.last

ShouldEmitUnknown(refs, gesture) ==
  /\ refs.frames >= MIN_GESTURE_FRAMES
  /\ gesture # refs.last

ShouldEmitLastClassified(refs, gesture) ==
  /\ gesture # "unknown"
  /\ refs.frames >= MIN_GESTURE_FRAMES

\* The condition under which onGesture is called, after the streak update.
ShouldEmit(refs, gesture) ==
  /\ gesture # "unknown"
  /\ refs.frames >= MIN_GESTURE_FRAMES
  /\ gesture # refs.last

(***************************************************************************)
(* App.tsx                                                                 *)
(***************************************************************************)
TreeMode == {"FORMED", "CHAOS"}

KeyCodes == {"Space", "Enter"}

Flip(prev) == IF prev = "FORMED" THEN "CHAOS" ELSE "FORMED"

handleGestureFlips(prev, gesture) ==
  IF gesture \in {"open", "closed"} THEN Flip(prev) ELSE prev

\* The mode after handleGesture(gesture).
handleGesture(prev, gesture) ==
  IF gesture = "open" THEN "CHAOS"
  ELSE IF gesture = "closed" THEN "FORMED" ELSE prev

handleKeySets(prev, code) == IF code = "Space" THEN "CHAOS" ELSE prev

\* The mode after handleKey for a keydown of `code`.
handleKey(prev, code) == IF code = "Space" THEN Flip(prev) ELSE prev

handleMoveTorn(ref, state) == [ref EXCEPT !.x = state.x, !.active = state.active]

\* handRef.current after handleMove(state): its three fields are assigned
\* one after the other within the call
handleMove(ref, state) ==
  [ref EXCEPT !.x = state.x, !.y = state.y, !.active = state.active]

\* Whether handleKey calls event.preventDefault().
handleKeyPrevents(code) == code = "Space"

(***************************************************************************)
(* SceneErrorBoundary.tsx                                                  *)
(***************************************************************************)
\* What reaches the boundary when its child, the Canvas, throws: an Error
\* object or another value.  The Canvas passes on what was thrown below it
\* only when that value is truthy, so no falsy value reaches the boundary.
Thrown == {"Error", "string"}

\* the truth value JavaScript gives state.error
Truthy(value) == value # "null"

\* static getDerivedStateFromError(error): the state's error
getDerivedStateFromError(error) == error

renderChildren(error) == "children"

\* render(): the fallback card when state.error is set, the children otherwise
render(error) == IF Truthy(error) THEN "fallback" ELSE "children"

(***************************************************************************)
(* GrandTree.tsx                                                           *)
(***************************************************************************)
\* Math.exp(-x) for x >= 0: the reciprocal of the exponential series
ExpNeg(x) ==
  LET t2 == RDiv(x * x, 2 * Unit)
      t3 == RDiv(t2 * x, 3 * Unit)
      t4 == RDiv(t3 * x, 4 * Unit)
  IN RDiv(Unit * Unit, Unit + x + t2 + t3 + t4)

\* THREE.MathUtils.lerp(x, y, t) = (1 - t) * x + t * y
lerp(x, y, t) == RDiv((Unit - t) * x + t * y, Unit)

\* THREE.MathUtils.damp(x, y, lambda, dt)
damp(x, y, lambda, dt) == lerp(x, y, Unit - ExpNeg(RDiv(lambda * dt, Unit)))

\* Vector3.lerp(v, alpha): each component moves by (v - this) * alpha
VecLerp(this, v, alpha) ==
  [c \in DOMAIN this |-> this[c] + RDiv((v[c] - this[c]) * alpha, Unit)]

\* The constants of each ornament set's frame update and the range its
\* builder draws the weights from: weight = wBase + Math.random() * wSpan.
OrnamentSets ==
  [gift   |-> [lazy |-> Frac(18, 100), rate |-> Frac(9, 10), scale |-> Frac(16, 10),
               wBase |-> Frac(8, 100), wSpan |-> Frac(18, 100)],
   bauble |-> [lazy |-> Frac(18, 100), rate |-> Frac(9, 10), scale |-> Frac(16, 10),
               wBase |-> Frac(22, 100), wSpan |-> Frac(18, 100)],
   light  |-> [lazy |-> Frac(18, 100), rate |-> Frac(9, 10), scale |-> Frac(16, 10),
               wBase |-> Frac(55, 100), wSpan |-> Frac(18, 100)],
   star   |-> [lazy |-> Frac(18, 100), rate |-> Frac(9, 10), scale |-> Frac(16, 10),
               wBase |-> Frac(75, 100), wSpan |-> Frac(18, 100)],
   spiral |-> [lazy |-> Frac(15, 100), rate |-> Frac(14, 10), scale |-> Frac(12, 10),
               wBase |-> Frac(35, 100), wSpan |-> Frac(20, 100)],
   photo  |-> [lazy |-> Frac(20, 100), rate |-> Frac(11, 10), scale |-> Frac(15, 10),
               wBase |-> Frac(42, 100), wSpan |-> Frac(20, 100)]]

ChaosFactorUnclamped(set, weight, progressValue) ==
  progressValue + RDiv(weight * OrnamentSets[set].lazy, Unit)

\* chaosFactor = Math.min(1, progressValue + weight * lazy)
ChaosFactor(set, weight, progressValue) ==
  Min(Unit, progressValue + RDiv(weight * OrnamentSets[set].lazy, Unit))

\* temp.copy(target).lerp(chaos, chaosFactor)
Blended(o, progressValue) ==
  VecLerp(o.target, o.chaos, ChaosFactor(o.set, o.weight, progressValue))

EaseGrows(set, weight, delta) ==
  Unit - RDiv(Unit * Unit,
              ExpNeg(RDiv((OrnamentSets[set].rate
                             + RDiv(weight * OrnamentSets[set].scale, Unit)) * delta,
                          Unit)))

\* ease = 1 - Math.exp(-(rate + weight * scale) * delta)
Ease(set, weight, delta) ==
  Unit - ExpNeg(RDiv((OrnamentSets[set].rate
                        + RDiv(weight * OrnamentSets[set].scale, Unit)) * delta,
                     Unit))

EaseStepCopies(o, cur, progressValue, delta) == Blended(o, progressValue)

EaseStepAlongX(o, cur, progressValue, delta) ==
  [VecLerp(cur, Blended(o, progressValue), Ease(o.set, o.weight, delta))
     EXCEPT ![3] = cur[3]]

\* data.current[i].lerp(temp, ease)
EaseStep(o, cur, progressValue, delta) ==
  VecLerp(cur, Blended(o, progressValue), Ease(o.set, o.weight, delta))

\* the target of progress for a mode
ProgressTarget(m) == IF m = "CHAOS" THEN Unit ELSE 0

ProgressStepFromPole(p, m, delta) ==
  damp(Unit - ProgressTarget(m), ProgressTarget(m), Frac(24, 10), delta)

\* progress.current after GrandTree's frame callback
ProgressStep(p, m, delta) == damp(p, ProgressTarget(m), Frac(24, 10), delta)

(***************************************************************************)
(* GrandTree.tsx: the builders of the formed fields                        *)
(***************************************************************************)
TREE_HEIGHT == Frac(46, 10)

TREE_RADIUS == Frac(21, 10)

\* the values Math.random() is drawn from: [0, 1), its ends and its middle
Randoms == {0, Frac(1, 2), Unit - 1}

\* Math.pow(x, n) for a whole exponent n
RECURSIVE Pow(_, _)
Pow(x, n) == IF n = 0 THEN Unit ELSE RDiv(x * Pow(x, n - 1), Unit)

LayerTRawUnranked(i, u, count) == u

\* tRaw = (i + Math.random()) / count
LayerTRaw(i, u, count) == RDiv(i * Unit + u, count)

\* t = lerp(tMin, tMax, Math.pow(tRaw, tPower))
LayerT(tRaw, tMin, tMax, tPower) == lerp(tMin, tMax, Pow(tRaw, tPower))

\* y = t * TREE_HEIGHT - TREE_HEIGHT / 2 + (Math.random() - 0.5) * 0.12
LayerY(t, v) ==
  RDiv(t * TREE_HEIGHT, Unit) - TREE_HEIGHT \div 2
    + RDiv((v - Frac(1, 2)) * Frac(12, 100), Unit)

SPIRAL_COUNT == 90

SPIRAL_TURNS == Frac(34, 10)

Pi == Frac(31416, 10000)

\* x brought into [-Pi, Pi) by whole turns
Wrap(x) == ((x + Pi) % (2 * Pi)) - Pi

\* the cosine series for |x| <= Pi / 2
CosSeries(x) ==
  LET x2 == RDiv(x * x, Unit)
      t2 == RDiv(x2, 2)
      t4 == RDiv(t2 * x2, 12 * Unit)
      t6 == RDiv(t4 * x2, 30 * Unit)
      t8 == RDiv(t6 * x2, 56 * Unit)
  IN Unit - t2 + t4 - t6 + t8

\* Math.cos(x)
Cos(x) ==
  LET a == Abs(Wrap(x))
  IN IF 2 * a <= Pi THEN CosSeries(a) ELSE -CosSeries(Pi - a)

\* Math.sin(x)
Sin(x) == Cos(x - Pi \div 2)

SpiralAngleNoPhase(t, phase) ==
  RDiv(RDiv(t * 2 * Pi, Unit) * SPIRAL_TURNS, Unit)

\* angle = t * Math.PI * 2 * SPIRAL_TURNS + phase
SpiralAngle(t, phase) ==
  RDiv(RDiv(t * 2 * Pi, Unit) * SPIRAL_TURNS, Unit) + phase

\* One iteration of buildSpiralData's loop: the formed point of instance i
\* and the radius the loop gave it, radiusAtY + jitter; u is the value
\* Math.random() returned for the jitter.
SpiralPoint(i, count, phase, radiusScale, u) ==
  LET t == RDiv(i * Unit, count)
      y == RDiv(t * TREE_HEIGHT, Unit) - TREE_HEIGHT \div 2
      radiusAtY == RDiv(RDiv((Unit - t) * TREE_RADIUS, Unit) * radiusScale, Unit)
      angle == SpiralAngle(t, phase)
      jitter == RDiv((u - Frac(1, 2)) * Frac(8, 100), Unit)
  IN [point |-> <<RDiv(Cos(angle) * (radiusAtY + jitter), Unit),
                  y + RDiv(jitter * Frac(2, 10), Unit),
                  RDiv(Sin(angle) * (radiusAtY + jitter), Unit)>>,
      radial |-> radiusAtY + jitter]

VARIABLES
  \* buildLayeredOrnaments: the arguments of the call and the loop's position
  layer,          \* [count, tMin, tMax, tPower, i, prevT, t, y]
  \* buildSpiralData for the two strands of SpiralLights
  spiral          \* [count, i, red, gold]

buildVars == <<layer, spiral>>

(***************************************************************************)
(* GrandTree.tsx: the frame callbacks of the ornament sets, for one        *)
(* instance.  item is what the set stores for the instance; each callback  *)
(* returns the item as it leaves it and the transform it hands the mesh.   *)
(* phase is wobble[i] of a cluster, offset[i] of a spiral and the index of *)
(* a photo.                                                                *)
(***************************************************************************)
\* a * b of two fixed-point numbers
Times(a, b) == RDiv(a * b, Unit)

\* Math.sin(time * rate + phase) * amplitude * progressValue
Wobble(time, rate, phase, amplitude, progressValue) ==
  Times(Times(Sin(Times(time, rate) + phase), amplitude), progressValue)

\* THREE.MathUtils.damp, component by component
DampEuler(this, to, lambda, delta) ==
  [c \in DOMAIN this |-> damp(this[c], to[c], lambda, delta)]

\* updateInstances and updateGiftInstances of OrnamentCluster, one iteration
ClusterUpdate(item, progressValue, delta, time) ==
  LET cur == EaseStep(item, item.current, progressValue, delta)
      wobble == Times(Wobble(time, Frac(8, 10), item.phase, Frac(5, 100), progressValue),
                      Frac(45, 100) + item.weight)
  IN [item |-> [item EXCEPT !.current = cur],
      drawn |-> [position |-> <<cur[1] + wobble, cur[2], cur[3] - wobble>>,
                 rotation |-> <<item.rotation[1] + Times(wobble, Frac(6, 10)),
                                item.rotation[2] + Times(progressValue, Frac(4, 10)),
                                item.rotation[3]>>,
                 scale |-> item.scale,
                 billboard |-> FALSE]]

\* updateSpiral of SpiralLights, one iteration
SpiralUpdate(item, progressValue, delta, time) ==
  LET cur == EaseStep(item, item.current, progressValue, delta)
      wobble == Wobble(time, Frac(8, 10), item.phase, Frac(5, 100), progressValue)
  IN [item |-> [item EXCEPT !.current = cur],
      drawn |-> [position |-> <<cur[1], cur[2] + Times(wobble, Frac(5, 10)), cur[3]>>,
                 rotation |-> <<0, 0, 0>>,
                 scale |-> item.scale,
                 billboard |-> FALSE]]

\* the threshold of progress above which a photo turns to the camera
Billboard(progressValue) == progressValue > Frac(75, 100)

\* the rotation a photo pursues: the camera's direction with a share of the
\* swirl, or the blend of its formed and chaos rotations
PhotoTarget(item, progressValue, swirl, facing) ==
  IF Billboard(progressValue)
  THEN <<facing[1], facing[2], facing[3] + Times(swirl, Frac(2, 10))>>
  ELSE [c \in 1..3 |-> lerp(item.targetRotation[c], item.chaosRotation[c],
                            ChaosFactor(item.set, item.weight, progressValue))]

\* the rate of that pursuit
PhotoLambda(progressValue) ==
  IF Billboard(progressValue) THEN Frac(6, 1) ELSE Frac(26, 10)

\* the callback of PhotoOrnaments for one photo; facing is the rotation
\* lookAt(camera.position) gives from the photo's place
PhotoUpdate(item, progressValue, delta, time, facing) ==
  LET cur == EaseStep(item, item.current, progressValue, delta)
      swirl == Wobble(time, Frac(6, 10), item.phase, Frac(8, 100), progressValue)
      rot == DampEuler(item.currentRotation,
                       PhotoTarget(item, progressValue, swirl, facing),
                       PhotoLambda(progressValue), delta)
  IN [item |-> [item EXCEPT !.current = cur, !.currentRotation = rot],
      drawn |-> [position |-> <<cur[1], cur[2] + Times(swirl, Frac(6, 10)), cur[3]>>,
                 rotation |-> IF Billboard(progressValue) THEN rot
                              ELSE <<rot[1], rot[2], rot[3] + Times(swirl, Frac(6, 10))>>,
                 scale |-> Times(item.scale, lerp(Unit, 2 * Unit, progressValue)),
                 billboard |-> Billboard(progressValue)]]

ItemUpdateStoresDrawn(item, progressValue, delta, time, facing) ==
  LET update ==
        IF item.set = "photo" THEN PhotoUpdate(item, progressValue, delta, time, facing)
        ELSE IF item.set = "spiral" THEN SpiralUpdate(item, progressValue, delta, time)
        ELSE ClusterUpdate(item, progressValue, delta, time)
  IN [update EXCEPT !.item.current = update.drawn.position]

\* the callback of the set the instance belongs to
ItemUpdate(item, progressValue, delta, time, facing) ==
  IF item.set = "photo" THEN PhotoUpdate(item, progressValue, delta, time, facing)
  ELSE IF item.set = "spiral" THEN SpiralUpdate(item, progressValue, delta, time)
  ELSE ClusterUpdate(item, progressValue, delta, time)

(***************************************************************************)
(* GestureCameraController.tsx, with the polar limits App.tsx passes it     *)
(***************************************************************************)
AZIMUTH_RANGE == Frac(75, 100)

POLAR_RANGE == Frac(45, 100)

minPolarAngle == Frac(55, 100)

maxPolarAngle == Frac(145, 100)

\* baseAnglesRef.current when it is null
Null == [captured |-> FALSE, azimuth |-> 0, polar |-> 0]

\* the angles the controls have, as a baseline
Angles(az, po) == [captured |-> TRUE, azimuth |-> az, polar |-> po]

BaselineRecaptured(base, az, po) == Angles(az, po)

\* baseAnglesRef.current after the capture of a frame that sees the hand
\* active: captured when it was null, kept otherwise
Baseline(base, az, po) == IF ~base.captured THEN Angles(az, po) ELSE base

\* targetAzimuth = base.azimuth - x * AZIMUTH_RANGE
TargetAzimuth(base, x) == base.azimuth - RDiv(x * AZIMUTH_RANGE, Unit)

TargetPolarUnclamped(base, y) == base.polar + RDiv(y * POLAR_RANGE, Unit)

\* targetPolar = clamp(base.polar + y * POLAR_RANGE, minPolarAngle, maxPolarAngle)
TargetPolar(base, y) ==
  clamp(base.polar + RDiv(y * POLAR_RANGE, Unit), minPolarAngle, maxPolarAngle)

VARIABLES
  \* HandGestureController
  pc,             \* where start() is: "init", "await", "running", "failed"
  cancelled,      \* the effect's `cancelled` flag
  startedRef,
  activeRef,
  stableGestureRef,
  stableFramesRef,
  lastGestureRef,
  gestureLabel,
  status,
  \* App
  mode,
  handActive,
  handRef,
  keyListener,    \* whether handleKey is registered on window
  \* history of the behaviour
  log,            \* every inference callback: [hand, g, live]
  emits,          \* every onGesture call: [at, g]
  moveAt,         \* index in log of the callback that last called onMove
  keySinceEmit,   \* a Space keydown was handled since the last onGesture call
  late,           \* the props the controller has called after its teardown
  trail,          \* the last TrailLen host events: [kind, arg, before]
  \* GrandTree
  progress,       \* progress.current
  orn,            \* one instance of an ornament set: its data fixed at construction
  current,        \* data.current[i] of that instance
  frames,         \* the number of frames rendered, where a behaviour counts them
  \* HandGestureController: what start() has acquired
  videoRef,       \* whether videoRef.current holds the video element
  waits,          \* the number of times start() has re-scheduled itself
  hands,          \* the detector: "none", "open", "closed"
  camera,         \* cameraRef.current: "none", "created", "stopped"
  stream,         \* the media stream of the video: "none", "live", "stopped"
  \* GestureCameraController and the OrbitControls it drives
  controlsRef,    \* whether controlsRef.current holds the OrbitControls
  baseAnglesRef,  \* Null, or the captured [azimuth, polar]
  azimuth,        \* controls.getAzimuthalAngle()
  polar,          \* controls.getPolarAngle()
  activation      \* the angles the camera had when handRef.active last became true

VARIABLES
  \* getGesture, applied to one inference result
  landmarks,      \* what getGesture reads of the result
  classified,     \* what it returned: [gesture, center], once it has
  \* one instance of an ornament set with all that its set stores for it
  item,           \* [set, weight, target, chaos, current, rotation, scale, phase,
                  \*  targetRotation, chaosRotation, currentRotation]
  drawn,          \* the transform the last frame gave the instance's mesh
  time,           \* clock.getElapsedTime() at the last frame
  \* SceneErrorBoundary
  error,          \* state.error: "null", or the value caught
  shown,          \* what render() returned last: "children" or "fallback"
  thrown,         \* a descendant has thrown while rendering
  escaped         \* an exception went past the boundary

ctrlVars ==
  <<pc, cancelled, startedRef, activeRef, stableGestureRef, stableFramesRef,
    lastGestureRef, gestureLabel, status>>

hostVars == <<mode, handActive, handRef, keyListener>>

histVars == <<log, emits, moveAt, keySinceEmit, late>>

sceneVars == <<progress, orn, current, frames, layer, spiral>>

resVars == <<videoRef, waits, hands, camera, stream>>

camVars == <<controlsRef, baseAnglesRef, azimuth, polar, activation>>

gestVars == <<landmarks, classified>>

\* the state of the parts that are followed on their own
drawVars == <<item, drawn, time>>

boundVars == <<error, shown, thrown, escaped>>

partVars == <<gestVars, drawVars, boundVars>>

vars ==
  <<ctrlVars, hostVars, histVars, trail, sceneVars, resVars, camVars, buildVars,
    partVars>>

(***************************************************************************)
(* The inputs of the model.                                                *)
(***************************************************************************)
\* palm centres in normalized image coordinates; landmarks may lie outside
\* the image, so a centre may be outside [0, 1]
Centers ==
  {<<Frac(1, 4), Frac(3, 4)>>, <<Frac(5, 4), -Frac(1, 4)>>}

\* an inference result, as onResults reads it: whether a hand is present and,
\* when it is, what getGesture returns for it
Results ==
  {[hand |-> FALSE, gesture |-> "unknown", center |-> <<Frac(1, 2), Frac(1, 2)>>]}
  \cup [hand : {TRUE}, gesture : HandGesture, center : Centers]

(***************************************************************************)
(* Initial state: App and HandGestureController are rendered, effects have *)
(* not run yet.                                                            *)
(***************************************************************************)
\* the instances of the ornament sets the model follows: each set with the
\* least and the greatest weight its builder can draw, at two places
Places ==
  {[target |-> <<Frac(12, 10), -Frac(15, 10), Frac(4, 10)>>,
    chaos |-> <<Frac(15, 10), -Frac(15, 10), Frac(2, 10)>>],
   [target |-> <<0, Frac(20, 10), -Frac(3, 10)>>,
    chaos |-> <<0, -Frac(60, 10), -Frac(3, 10)>>]}

Instances ==
  {[set |-> set, weight |-> OrnamentSets[set].wBase + k * (OrnamentSets[set].wSpan - 1),
    target |-> place.target, chaos |-> place.chaos] :
     set \in DOMAIN OrnamentSets, k \in {0, 1}, place \in Places}

\* frame deltas, in seconds
Deltas == {Frac(1, 60), Frac(1, 10)}

InitApp ==
  /\ pc = "init"
  /\ cancelled = FALSE
  /\ startedRef = FALSE
  /\ activeRef = FALSE
  /\ stableGestureRef = "unknown"
  /\ stableFramesRef = 0
  /\ lastGestureRef = "unknown"
  /\ gestureLabel = "No hand"
  /\ status = "Camera idle"
  /\ handActive = FALSE
  /\ handRef = NeutralMove
  /\ keyListener = FALSE
  /\ log = <<>>
  /\ emits = <<>>
  /\ moveAt = 0
  /\ keySinceEmit = FALSE
  /\ late = {}
  /\ trail = <<>>

\* buildLayeredOrnaments is entered: no instance built yet
LayerCall(count, tMin, tMax, tPower) ==
  [count |-> count, tMin |-> tMin, tMax |-> tMax, tPower |-> tPower,
   i |-> 0, prevT |-> tMin, t |-> tMin, y |-> 0]

\* SpiralLights enters buildSpiralData for its two strands
SpiralCall(count) ==
  [count |-> count, i |-> 0,
   red |-> [point |-> <<0, 0, 0>>, radial |-> 0],
   gold |-> [point |-> <<0, 0, 0>>, radial |-> 0]]

\* the builders have been entered with the arguments of their declarations
InitBuild ==
  /\ layer = LayerCall(LayerCount, Frac(8, 100), Frac(92, 100), 1)
  /\ spiral = SpiralCall(SPIRAL_COUNT)

\* GrandTree is constructed under mode m: progress starts at m's pole and
\* every instance at its formed position
InitScene(m, o) ==
  /\ progress = ProgressTarget(m)
  /\ orn = o
  /\ current = o.target
  /\ frames = 0

\* HandGestureController has acquired nothing; video tells whether the
\* preview, and with it the video element, is rendered
InitResources(video) ==
  /\ videoRef = video
  /\ waits = 0
  /\ hands = "none"
  /\ camera = "none"
  /\ stream = "none"

\* the camera of the Canvas looks at the origin from [0, 2.6, 8]: azimuth 0,
\* polar angle acos(2.6 / |[0, 2.6, 8]|) = 1.257
InitControls ==
  /\ controlsRef = TRUE
  /\ baseAnglesRef = Null
  /\ azimuth = 0
  /\ polar = Frac(1257, 1000)
  /\ activation = Null

\* a result without a hand
NoLandmarks ==
  [present |-> FALSE, fingers |-> <<>>, label |-> "Right", thumbTip |-> 0,
   thumbIp |-> 0, palm |-> 0, tips |-> <<>>, palmPoints |-> <<>>]

\* getGesture has not returned
NotReturned ==
  [returned |-> FALSE, gesture |-> "unknown", center |-> <<Frac(1, 2), Frac(1, 2)>>]

InitLandmarks ==
  /\ landmarks = NoLandmarks
  /\ classified = NotReturned

\* the yaw that turns a photo at `target` away from the tree axis:
\* Math.atan2(target.x, target.z)
Atan2(target) == IF target[1] = 0 THEN Pi ELSE Frac(1249, 1000)

\* An instance as its builder leaves it: current at the formed position, and
\* for a photo currentRotation at the formed rotation.  The fields a builder
\* draws at random, other than the weight, have one value here; a set that
\* stores no rotation has the zero rotation.
ItemOf(o) ==
  LET yaw == Atan2(o.target)
      formed == <<Frac(5, 100), yaw, Frac(349, 10000)>>
  IN [set |-> o.set, weight |-> o.weight, target |-> o.target, chaos |-> o.chaos,
      current |-> o.target,
      rotation |-> IF o.set \in {"photo", "spiral"} THEN <<0, 0, 0>>
                   ELSE <<Frac(1, 2), Frac(2, 1), Frac(3, 1)>>,
      scale |-> IF o.set = "photo" THEN Frac(7, 10) ELSE Frac(3, 100),
      phase |-> Frac(1, 1),
      targetRotation |-> IF o.set = "photo" THEN formed ELSE <<0, 0, 0>>,
      chaosRotation |-> IF o.set = "photo"
                        THEN <<-Frac(69, 100), yaw + Frac(122, 100), Frac(43, 100)>>
                        ELSE <<0, 0, 0>>,
      currentRotation |-> IF o.set = "photo" THEN formed ELSE <<0, 0, 0>>]

Items == {ItemOf(o) : o \in Instances}

\* the mesh of an instance before its first frame
NotDrawn ==
  [position |-> <<0, 0, 0>>, rotation |-> <<0, 0, 0>>, scale |-> Unit,
   billboard |-> FALSE]

InitDrawn(it) ==
  /\ item = it
  /\ drawn = NotDrawn
  /\ time = 0

\* SceneErrorBoundary is constructed and has rendered its children
InitBoundary ==
  /\ error = "null"
  /\ shown = render(error)
  /\ thrown = FALSE
  /\ escaped = FALSE

InitParts ==
  /\ InitBoundary
  /\ InitLandmarks
  /\ InitDrawn(ItemOf([set |-> "gift", weight |-> OrnamentSets["gift"].wBase,
                       target |-> <<0, 0, 0>>, chaos |-> <<0, 0, 0>>]))

Init ==
  /\ InitApp
  /\ mode = "FORMED"
  /\ InitScene("FORMED", [set |-> "gift", weight |-> OrnamentSets["gift"].wBase,
                          target |-> <<0, 0, 0>>, chaos |-> <<0, 0, 0>>])
  /\ InitResources(TRUE)
  /\ InitControls
  /\ InitParts
  /\ InitBuild

(***************************************************************************)
(* start(): the catch block.                                               *)
(***************************************************************************)
StartReturnsIfStarted == startedRef

\* the early return of start(): torn down, or already started
StartReturns == cancelled \/ startedRef

StartCatchMissing ==
  /\ startedRef' = TRUE
  /\ pc' = "failed"
  /\ UNCHANGED <<handActive, handRef, status, videoRef, waits, stream, late>>

\* the catch block of start()
StartCatch ==
  /\ startedRef' = FALSE
  /\ handActive' = FALSE
  /\ handRef' = handleMove(handRef, NeutralMove)
  /\ late' = (IF cancelled THEN late \cup {"onActiveChange", "onMove"} ELSE late)
  /\ status' = "Camera error"
  /\ pc' = "failed"
  /\ UNCHANGED <<videoRef, waits, stream>>

\* start() from the video element on: the detector and the camera are
\* created, the status is set and the camera start is awaited
StartAwaits ==
  /\ startedRef' = TRUE
  /\ hands' = "open"
  /\ camera' = "created"
  /\ status' = "Camera active"
  /\ pc' = "await"
  /\ UNCHANGED <<handActive, handRef, videoRef, waits, stream>>

\* an exception of the detector's constructor or setup, or of the camera's
\* constructor: the detector may or may not exist when the catch block runs
StartThrows ==
  /\ \E h \in {"none", "open"} : hands' = h
  /\ camera' = "none"
  /\ StartCatch

(***************************************************************************)
(* Mount: the effects of App and HandGestureController run.  The video     *)
(* element is attached before effects run, so start() proceeds to the      *)
(* awaited camera start, or an exception of the detector or camera         *)
(* constructor takes it to the catch block.                                *)
(***************************************************************************)
MountStarts ==
  /\ pc = "init"
  /\ ~StartReturns
  /\ videoRef
  /\ keyListener' = TRUE
  /\ StartAwaits
  /\ UNCHANGED <<cancelled, activeRef, stableGestureRef, stableFramesRef,
                 lastGestureRef, gestureLabel>>
  /\ UNCHANGED mode
  /\ UNCHANGED <<histVars, trail, sceneVars, camVars, partVars>>

MountThrows ==
  /\ pc = "init"
  /\ ~StartReturns
  /\ videoRef
  /\ keyListener' = TRUE
  /\ StartThrows
  /\ UNCHANGED <<cancelled, activeRef, stableGestureRef, stableFramesRef,
                 lastGestureRef, gestureLabel>>
  /\ UNCHANGED mode
  /\ UNCHANGED <<log, emits, moveAt, keySinceEmit, trail, sceneVars, camVars, partVars>>

\* The stream a resolved camera start leaves on the video element.  The
\* start acquires the stream asynchronously; when stop() was called on the
\* camera while the start was pending, the Camera class decides whether the
\* stream is still attached: start() itself does nothing after the await.
StartedStream(cam) == IF cam = "stopped" THEN {"live", "none"} ELSE {"live"}

\* await cameraRef.current.start() resolves
CameraStarted ==
  /\ pc = "await"
  /\ pc' = "running"
  /\ stream' \in StartedStream(camera)
  /\ UNCHANGED <<cancelled, startedRef, activeRef, stableGestureRef,
                 stableFramesRef, lastGestureRef, gestureLabel, status>>
  /\ UNCHANGED <<videoRef, waits, hands, camera>>
  /\ UNCHANGED <<hostVars, histVars, trail, sceneVars, camVars, partVars>>

\* await cameraRef.current.start() rejects
CameraFailed ==
  /\ pc = "await"
  /\ StartCatch
  /\ UNCHANGED <<cancelled, activeRef, stableGestureRef, stableFramesRef,
                 lastGestureRef, gestureLabel>>
  /\ UNCHANGED <<hands, camera>>
  /\ UNCHANGED <<mode, keyListener>>
  /\ UNCHANGED <<log, emits, moveAt, keySinceEmit, trail, sceneVars, camVars, partVars>>

(***************************************************************************)
(* hands.onResults                                                         *)
(***************************************************************************)
\* the callback after teardown: it returns at once
OnResultsCancelled(r) ==
  /\ cancelled
  /\ Len(SelectSeq(log, LAMBDA e : ~e.live)) < MaxLate
  /\ log' = Append(log, [hand |-> r.hand, g |-> r.gesture, live |-> FALSE])
  /\ UNCHANGED <<ctrlVars, hostVars, emits, moveAt, keySinceEmit, late, trail, sceneVars,
                 resVars, camVars, partVars>>

OnResultsNoHand(r) ==
  /\ ~cancelled
  /\ ~r.hand
  /\ LET refs == NoHandRefs(Refs(stableGestureRef, stableFramesRef, lastGestureRef))
     IN /\ stableGestureRef' = refs.stable
        /\ stableFramesRef' = refs.frames
        /\ lastGestureRef' = refs.last
  /\ activeRef' = FALSE
  /\ handActive' = ActiveChange(activeRef, FALSE, handActive)
  /\ handRef' = handleMove(handRef, NeutralMove)
  /\ gestureLabel' = "No hand"
  /\ log' = Append(log, [hand |-> FALSE, g |-> r.gesture, live |-> TRUE])
  /\ moveAt' = Len(log) + 1
  /\ UNCHANGED <<pc, cancelled, startedRef, status>>
  /\ UNCHANGED <<mode, keyListener>>
  /\ UNCHANGED <<emits, keySinceEmit, late, trail, sceneVars, resVars, camVars, partVars>>

OnResultsHand(r) ==
  /\ ~cancelled
  /\ r.hand
  /\ activeRef' = TRUE
  /\ handActive' = ActiveChange(activeRef, TRUE, handActive)
  /\ handRef' = handleMove(handRef, MoveOf(r.center))
  /\ gestureLabel' = LabelOf(r.gesture)
  /\ log' = Append(log, [hand |-> TRUE, g |-> r.gesture, live |-> TRUE])
  /\ moveAt' = Len(log) + 1
  /\ LET refs == StableRefs(Refs(stableGestureRef, stableFramesRef, lastGestureRef),
                            r.gesture)
     IN /\ stableGestureRef' = refs.stable
        /\ stableFramesRef' = refs.frames
        /\ IF ShouldEmit(refs, r.gesture)
           THEN /\ lastGestureRef' = r.gesture
                /\ mode' = handleGesture(mode, r.gesture)
                /\ emits' = Append(emits, [at |-> Len(log) + 1, g |-> r.gesture])
                /\ keySinceEmit' = FALSE
           ELSE /\ lastGestureRef' = refs.last
                /\ UNCHANGED <<mode, emits, keySinceEmit>>
  /\ UNCHANGED <<pc, cancelled, startedRef, status>>
  /\ UNCHANGED <<keyListener, late, trail, sceneVars, resVars, camVars, partVars>>

\* the detector delivers a result for a frame the started camera sent it
OnResults ==
  /\ pc = "running"
  /\ Len(log) < MaxCallbacks
  /\ \E r \in Results :
       \/ OnResultsCancelled(r)
       \/ OnResultsNoHand(r)
       \/ OnResultsHand(r)

(***************************************************************************)
(* App: keydown on window.                                                 *)
(***************************************************************************)
KeyDown(code) ==
  /\ keyListener
  /\ mode' = handleKey(mode, code)
  /\ keySinceEmit' = (keySinceEmit \/ code = "Space")
  /\ UNCHANGED <<ctrlVars, handActive, handRef, keyListener>>
  /\ UNCHANGED <<log, emits, moveAt, late, sceneVars, resVars, camVars, partVars>>

(***************************************************************************)
(* Unmount: the cleanups of both effects run in one commit.                *)
(***************************************************************************)
Unmount ==
  /\ pc # "init"
  /\ keyListener
  /\ cancelled' = TRUE
  /\ camera' = (IF camera = "created" THEN "stopped" ELSE camera)
  /\ stream' = (IF stream = "live" THEN "stopped" ELSE stream)
  /\ hands' = (IF hands = "open" THEN "closed" ELSE hands)
  /\ startedRef' = FALSE
  /\ keyListener' = FALSE
  /\ UNCHANGED <<pc, activeRef, stableGestureRef, stableFramesRef, lastGestureRef,
                 gestureLabel, status>>
  /\ UNCHANGED <<mode, handActive, handRef>>
  /\ UNCHANGED <<videoRef, waits>>
  /\ UNCHANGED <<histVars, trail, sceneVars, camVars, partVars>>

Next ==
  \/ MountStarts
  \/ MountThrows
  \/ CameraStarted
  \/ CameraFailed
  \/ OnResults
  \/ \E code \in KeyCodes : KeyDown(code) /\ UNCHANGED trail
  \/ Unmount

Spec == Init /\ [][Next]_vars

(***************************************************************************)
(* The controller on its own, rendered with or without the preview: while  *)
(* the video element is missing start() re-schedules itself for the next   *)
(* animation frame.                                                        *)
(***************************************************************************)
MountWaits ==
  /\ pc = "init"
  /\ ~StartReturns
  /\ ~videoRef
  /\ keyListener' = TRUE
  /\ waits' = waits + 1
  /\ pc' = "wait"
  /\ UNCHANGED <<cancelled, startedRef, activeRef, stableGestureRef, stableFramesRef,
                 lastGestureRef, gestureLabel, status>>
  /\ UNCHANGED <<mode, handActive, handRef>>
  /\ UNCHANGED <<videoRef, hands, camera, stream>>
  /\ UNCHANGED <<histVars, trail, sceneVars, camVars, partVars>>

\* the re-scheduled start() runs and returns at once
RetryReturns ==
  /\ pc = "wait"
  /\ StartReturns
  /\ pc' = "stopped"
  /\ UNCHANGED <<cancelled, startedRef, activeRef, stableGestureRef, stableFramesRef,
                 lastGestureRef, gestureLabel, status>>
  /\ UNCHANGED <<hostVars, histVars, trail, sceneVars, resVars, camVars, partVars>>

\* the re-scheduled start() runs and still finds no video element
RetryWaits ==
  /\ pc = "wait"
  /\ ~StartReturns
  /\ ~videoRef
  /\ waits < MaxWaits
  /\ waits' = waits + 1
  /\ UNCHANGED ctrlVars
  /\ UNCHANGED <<videoRef, hands, camera, stream>>
  /\ UNCHANGED <<hostVars, histVars, trail, sceneVars, camVars, partVars>>

\* the re-scheduled start() runs and finds the video element
RetryStarts ==
  /\ pc = "wait"
  /\ ~StartReturns
  /\ videoRef
  /\ StartAwaits
  /\ UNCHANGED <<cancelled, activeRef, stableGestureRef, stableFramesRef,
                 lastGestureRef, gestureLabel>>
  /\ UNCHANGED <<mode, keyListener>>
  /\ UNCHANGED <<histVars, trail, sceneVars, camVars, partVars>>

RetryThrows ==
  /\ pc = "wait"
  /\ ~StartReturns
  /\ videoRef
  /\ StartThrows
  /\ UNCHANGED <<cancelled, activeRef, stableGestureRef, stableFramesRef,
                 lastGestureRef, gestureLabel>>
  /\ UNCHANGED <<mode, keyListener>>
  /\ UNCHANGED <<log, emits, moveAt, keySinceEmit, trail, sceneVars, camVars, partVars>>

\* the controller is rendered again with the preview: the video element is
\* attached to videoRef
VideoAttached ==
  /\ keyListener
  /\ ~videoRef
  /\ videoRef' = TRUE
  /\ UNCHANGED <<ctrlVars, hostVars, histVars, trail, sceneVars, camVars, partVars>>
  /\ UNCHANGED <<waits, hands, camera, stream>>

InitStart ==
  /\ InitApp
  /\ mode = "FORMED"
  /\ InitScene("FORMED", [set |-> "gift", weight |-> OrnamentSets["gift"].wBase,
                          target |-> <<0, 0, 0>>, chaos |-> <<0, 0, 0>>])
  /\ \E video \in BOOLEAN : InitResources(video)
  /\ InitControls
  /\ InitParts
  /\ InitBuild

NextStart ==
  \/ MountStarts
  \/ MountThrows
  \/ MountWaits
  \/ RetryReturns
  \/ RetryWaits
  \/ RetryStarts
  \/ RetryThrows
  \/ VideoAttached
  \/ CameraStarted
  \/ CameraFailed
  \/ \E code \in KeyCodes : KeyDown(code) /\ UNCHANGED trail
  \/ Unmount

SpecStart == InitStart /\ [][NextStart]_vars

(***************************************************************************)
(* The host's handlers on their own: App receives keydown events and the   *)
(* gesture events of its onGesture prop, whose type admits every           *)
(* HandGesture.  The trail keeps the last TrailLen events with the mode    *)
(* each found.                                                             *)
(***************************************************************************)
Push(event) ==
  IF Len(trail) < TrailLen THEN Append(trail, event)
  ELSE Append(Tail(trail), event)

HostKeyDown(code) ==
  /\ KeyDown(code)
  /\ trail' = Push([kind |-> "key", arg |-> code, before |-> mode,
                    prevented |-> handleKeyPrevents(code)])

HostGesture(gesture) ==
  /\ keyListener
  /\ mode' = handleGesture(mode, gesture)
  /\ trail' = Push([kind |-> "gesture", arg |-> gesture, before |-> mode,
                    prevented |-> FALSE])
  /\ UNCHANGED <<ctrlVars, handActive, handRef, keyListener, histVars, sceneVars, resVars, camVars, partVars>>

NextHost ==
  \/ MountStarts
  \/ MountThrows
  \/ \E code \in KeyCodes : HostKeyDown(code)
  \/ \E gesture \in HandGesture : HostGesture(gesture)

SpecHost == Init /\ [][NextHost]_vars

(***************************************************************************)
(* The render loop.  One frame runs GrandTree's callback, which damps      *)
(* progress toward the mode's pole, and the callbacks of the ornament      *)
(* sets, which read progress.current; the order of the callbacks within a  *)
(* frame is the renderer's, so a set may read the value of this frame or   *)
(* of the frame before.                                                    *)
(***************************************************************************)
RenderFrame(delta, treeFirst) ==
  LET next == ProgressStep(progress, mode, delta)
      progressValue == IF treeFirst THEN next ELSE progress
  IN /\ current' = EaseStep(orn, current, progressValue, delta)
     /\ progress' = next
     /\ UNCHANGED <<ctrlVars, hostVars, histVars, trail, orn, resVars, camVars, partVars, buildVars>>

Frame(delta, treeFirst) == RenderFrame(delta, treeFirst) /\ UNCHANGED frames

\* The scene with the mode held: GrandTree is constructed under the mode the
\* host has at that moment, and only frames follow.
InitHeld ==
  /\ InitApp
  /\ mode \in TreeMode
  /\ \E o \in Instances : InitScene(mode, o)
  /\ InitResources(TRUE)
  /\ InitControls
  /\ InitParts
  /\ InitBuild

NextHeld == \E delta \in Deltas, treeFirst \in BOOLEAN : Frame(delta, treeFirst)

\* the render loop runs a frame callback for every displayed frame
SpecHeld == InitHeld /\ [][NextHeld]_vars /\ WF_vars(NextHeld)

(***************************************************************************)
(* The scene under mode changes: App is mounted with mode FORMED, key and   *)
(* gesture events change the mode between frames, and the behaviour counts *)
(* its frames.                                                             *)
(***************************************************************************)
CountedFrame(delta, treeFirst) ==
  /\ frames < MaxFrames
  /\ RenderFrame(delta, treeFirst)
  /\ frames' = frames + 1

\* handleGesture called through the onGesture prop
SceneGesture(gesture) ==
  /\ keyListener
  /\ mode' = handleGesture(mode, gesture)
  /\ UNCHANGED <<ctrlVars, handActive, handRef, keyListener, histVars, trail,
                 sceneVars, resVars, camVars, partVars>>

InitToggled ==
  /\ InitApp
  /\ mode = "FORMED"
  /\ \E o \in Instances : InitScene("FORMED", o)
  /\ InitResources(TRUE)
  /\ InitControls
  /\ InitParts
  /\ InitBuild

NextToggled ==
  \/ MountStarts
  \/ \E code \in KeyCodes : KeyDown(code) /\ UNCHANGED trail
  \/ \E gesture \in HandGesture : SceneGesture(gesture)
  \/ \E delta \in Deltas, treeFirst \in BOOLEAN : CountedFrame(delta, treeFirst)

SpecToggled == InitToggled /\ [][NextToggled]_vars

(***************************************************************************)
(* The camera: App's handleMove and handleActiveChange receive what an     *)
(* inference callback delivers, GestureCameraController's frame callback   *)
(* reads handRef, and the OrbitControls rotate the camera on their own     *)
(* while no hand is active.  Callbacks and frames interleave freely.       *)
(***************************************************************************)
\* palm centres: to the right of the image centre, and left and below
CameraCenters ==
  {<<Frac(3, 4), Frac(1, 2)>>, <<Frac(1, 4), Frac(3, 4)>>}

\* a callback with a hand: onActiveChange(true) when it appeared, then onMove
HandSeen(center) ==
  /\ keyListener
  /\ handActive' = TRUE
  /\ handRef' = handleMove(handRef, MoveOf(center))
  /\ activation' = (IF handRef.active THEN activation ELSE Angles(azimuth, polar))
  /\ UNCHANGED <<ctrlVars, mode, keyListener, histVars, trail, sceneVars, resVars>>
  /\ UNCHANGED <<controlsRef, baseAnglesRef, azimuth, polar, partVars>>

\* a callback without a hand: onActiveChange(false) when it left, then onMove
HandLost ==
  /\ keyListener
  /\ handActive' = FALSE
  /\ handRef' = handleMove(handRef, NeutralMove)
  /\ UNCHANGED <<ctrlVars, mode, keyListener, histVars, trail, sceneVars, resVars>>
  /\ UNCHANGED <<camVars, partVars>>

\* GestureCameraController's frame callback
CameraFrame(delta) ==
  /\ frames < MaxCameraFrames
  /\ frames' = frames + 1
  /\ IF ~controlsRef THEN UNCHANGED <<baseAnglesRef, azimuth, polar>>
     ELSE IF ~handRef.active
     THEN /\ baseAnglesRef' = Null
          /\ UNCHANGED <<azimuth, polar>>
     ELSE LET base == Baseline(baseAnglesRef, azimuth, polar)
          IN /\ baseAnglesRef' = base
             /\ azimuth' = damp(azimuth, TargetAzimuth(base, handRef.x), Frac(5, 1), delta)
             /\ polar' = clamp(damp(polar, TargetPolar(base, handRef.y), Frac(5, 1), delta),
                               minPolarAngle, maxPolarAngle)
  /\ UNCHANGED <<ctrlVars, hostVars, histVars, trail, progress, orn, current, resVars>>
  /\ UNCHANGED <<controlsRef, activation, buildVars, partVars>>

\* the OrbitControls rotate the camera about the tree while autoRotate is
\* on, that is while handActive is false; one step stands for the rotation
\* of many frames
AutoRotate ==
  /\ keyListener
  /\ ~handActive
  /\ azimuth + Frac(3, 2) <= Pi
  /\ azimuth' = azimuth + Frac(3, 2)
  /\ UNCHANGED <<ctrlVars, hostVars, histVars, trail, sceneVars, resVars>>
  /\ UNCHANGED <<controlsRef, baseAnglesRef, polar, activation, partVars>>

NextCamera ==
  \/ MountStarts
  \/ \E center \in CameraCenters : HandSeen(center)
  \/ HandLost
  \/ \E delta \in Deltas : CameraFrame(delta)
  \/ AutoRotate

SpecCamera == Init /\ [][NextCamera]_vars

(***************************************************************************)
(* The camera from the construction of App on: controlsRef is null until   *)
(* the OrbitControls are attached to it.                                   *)
(***************************************************************************)
InitOrbit ==
  /\ InitApp
  /\ mode = "FORMED"
  /\ InitScene("FORMED", [set |-> "gift", weight |-> OrnamentSets["gift"].wBase,
                          target |-> <<0, 0, 0>>, chaos |-> <<0, 0, 0>>])
  /\ InitResources(TRUE)
  /\ controlsRef = FALSE
  /\ baseAnglesRef = Null
  /\ azimuth = 0
  /\ polar = Frac(1257, 1000)
  /\ activation = Null
  /\ InitParts
  /\ InitBuild

\* the OrbitControls are mounted: ref={controlsRef}
ControlsAttached ==
  /\ ~controlsRef
  /\ controlsRef' = TRUE
  /\ UNCHANGED <<baseAnglesRef, azimuth, polar, activation, partVars>>
  /\ UNCHANGED <<ctrlVars, hostVars, histVars, trail, sceneVars, resVars>>

NextOrbit ==
  \/ MountStarts
  \/ ControlsAttached
  \/ \E center \in CameraCenters : HandSeen(center)
  \/ HandLost
  \/ \E delta \in Deltas : CameraFrame(delta)

SpecOrbit == InitOrbit /\ [][NextOrbit]_vars

(***************************************************************************)
(* getGesture on its own: the detector hands onResults one result, and the *)
(* callback classifies it.  Of the landmarks the model keeps what          *)
(* getGesture reads: the tip and PIP heights of the four fingers, the      *)
(* thumb's tip and IP abscissae with the handedness label, the distances   *)
(* from the wrist to the middle knuckle and to the four fingertips, and    *)
(* the five palm points.                                                   *)
(***************************************************************************)
\* a finger with its PIP joint at mid height: tip well above it, above it by
\* exactly 0.02, or below it
FingerShapes ==
  {[tip |-> Frac(30, 100), pip |-> Frac(50, 100)],
   [tip |-> Frac(48, 100), pip |-> Frac(50, 100)],
   [tip |-> Frac(60, 100), pip |-> Frac(50, 100)]}

\* the handedness labels; "" stands for a result without a label
Labels == {"Left", "Right", ""}

\* wrist to middle knuckle: a hand far from the camera, and a near one
PalmDistances == {Frac(5, 100), Frac(10, 100)}

\* wrist to the four fingertips; the means are 0.1, 0.115, 0.14, 0.165, 0.2
TipDistances ==
  {<<Frac(10, 100), Frac(10, 100), Frac(10, 100), Frac(10, 100)>>,
   <<Frac(105, 1000), Frac(125, 1000), Frac(125, 1000), Frac(105, 1000)>>,
   <<Frac(12, 100), Frac(16, 100), Frac(16, 100), Frac(12, 100)>>,
   <<Frac(155, 1000), Frac(175, 1000), Frac(175, 1000), Frac(155, 1000)>>,
   <<Frac(18, 100), Frac(22, 100), Frac(22, 100), Frac(18, 100)>>}

\* wrist and the four knuckles, in the image and partly outside it
PalmPointSets ==
  {<<<<Frac(50, 100), Frac(80, 100)>>, <<Frac(40, 100), Frac(60, 100)>>,
     <<Frac(50, 100), Frac(58, 100)>>, <<Frac(58, 100), Frac(60, 100)>>,
     <<Frac(62, 100), Frac(62, 100)>>>>,
   <<<<Frac(110, 100), Frac(20, 100)>>, <<Frac(100, 100), 0>>,
     <<Frac(110, 100), -Frac(2, 100)>>, <<Frac(118, 100), 0>>,
     <<Frac(122, 100), Frac(2, 100)>>>>}

HandLandmarks ==
  [present : {TRUE},
   fingers : [1..4 -> FingerShapes],
   label : Labels,
   thumbTip : {Frac(40, 100), Frac(60, 100)},
   thumbIp : {Frac(50, 100)},
   palm : PalmDistances,
   tips : TipDistances,
   palmPoints : PalmPointSets]

InitGesture ==
  /\ InitApp
  /\ mode = "FORMED"
  /\ InitScene("FORMED", [set |-> "gift", weight |-> OrnamentSets["gift"].wBase,
                          target |-> <<0, 0, 0>>, chaos |-> <<0, 0, 0>>])
  /\ InitResources(TRUE)
  /\ InitControls
  /\ InitBuild
  /\ landmarks \in HandLandmarks \cup {NoLandmarks}
  /\ classified = NotReturned
  /\ InitDrawn(ItemOf([set |-> "gift", weight |-> OrnamentSets["gift"].wBase,
                       target |-> <<0, 0, 0>>, chaos |-> <<0, 0, 0>>]))
  /\ InitBoundary

\* onResults calls getGesture(results)
Classify ==
  /\ ~classified.returned
  /\ classified' = [returned |-> TRUE, gesture |-> getGesture(landmarks).gesture,
                    center |-> getGesture(landmarks).center]
  /\ UNCHANGED <<ctrlVars, hostVars, histVars, trail, sceneVars, resVars, camVars>>
  /\ UNCHANGED <<landmarks, drawVars, boundVars>>

NextGesture == Classify

SpecGesture == InitGesture /\ [][NextGesture]_vars

(***************************************************************************)
(* The scene as it is drawn: one frame runs GrandTree's callback and the   *)
(* callback of the instance's set, in the renderer's order, with the       *)
(* clock's elapsed time; the meshes are mounted.  App is mounted with mode *)
(* FORMED and gestures change the mode between frames.                     *)
(***************************************************************************)
\* frame deltas, in seconds: a slow frame and a stalled one
DrawnDeltas == {Frac(1, 10), Frac(1, 2)}

\* rotations that turn a photo to the camera, for two places of the camera
Facings ==
  {<<-Frac(2, 10), Frac(3, 10), 0>>, <<-Frac(3, 10), -Frac(12, 10), Frac(1, 10)>>}

DrawnFrame(delta, treeFirst, facing) ==
  /\ frames < MaxDrawnFrames
  /\ frames' = frames + 1
  /\ LET next == ProgressStep(progress, mode, delta)
         progressValue == IF treeFirst THEN next ELSE progress
         update == ItemUpdate(item, progressValue, delta, time + delta, facing)
     IN /\ progress' = next
        /\ item' = update.item
        /\ drawn' = update.drawn
  /\ time' = time + delta
  /\ UNCHANGED <<ctrlVars, hostVars, histVars, trail, orn, current, resVars, camVars,
                 buildVars, gestVars, boundVars>>

InitDrawnScene ==
  /\ InitApp
  /\ mode = "FORMED"
  /\ InitScene("FORMED", [set |-> "gift", weight |-> OrnamentSets["gift"].wBase,
                          target |-> <<0, 0, 0>>, chaos |-> <<0, 0, 0>>])
  /\ InitResources(TRUE)
  /\ InitControls
  /\ InitBuild
  /\ InitLandmarks
  /\ InitBoundary
  /\ \E it \in Items : InitDrawn(it)

NextDrawn ==
  \/ MountStarts
  \/ \E gesture \in HandGesture : SceneGesture(gesture)
  \/ \E delta \in DrawnDeltas, treeFirst \in BOOLEAN, facing \in Facings :
       DrawnFrame(delta, treeFirst, facing)

SpecDrawn == InitDrawnScene /\ [][NextDrawn]_vars

(***************************************************************************)
(* The scene under its error boundary.  App renders the Canvas inside      *)
(* SceneErrorBoundary and the gesture controller and the status overlay    *)
(* outside it.  When a descendant of the boundary throws while React       *)
(* renders it, React hands the value to getDerivedStateFromError and       *)
(* renders the boundary again with the state that returns; frames are      *)
(* rendered while the Canvas is mounted.                                   *)
(***************************************************************************)
\* A descendant throws `value`.  When the boundary answers with its children
\* React renders them again, and if they throw again the exception goes on
\* to the boundary's ancestors.
SceneThrows(value) ==
  /\ shown = "children"
  /\ ~escaped
  /\ thrown' = TRUE
  /\ error' = getDerivedStateFromError(value)
  /\ shown' = render(error')
  /\ escaped' \in (IF shown' = "children" THEN BOOLEAN ELSE {FALSE})
  /\ UNCHANGED <<ctrlVars, hostVars, histVars, trail, sceneVars, resVars, camVars,
                 gestVars, drawVars>>

\* App renders again, and with it the boundary, its state as it is
Rerender ==
  /\ keyListener
  /\ shown' = render(error)
  /\ UNCHANGED <<error, thrown, escaped>>
  /\ UNCHANGED <<ctrlVars, hostVars, histVars, trail, sceneVars, resVars, camVars,
                 gestVars, drawVars>>

\* a frame of the mounted Canvas
SceneFrame(delta, treeFirst) ==
  /\ shown = "children"
  /\ ~escaped
  /\ CountedFrame(delta, treeFirst)

NextBoundary ==
  \/ MountStarts
  \/ \E code \in KeyCodes : KeyDown(code) /\ UNCHANGED trail
  \/ \E value \in Thrown : SceneThrows(value)
  \/ Rerender
  \/ \E delta \in Deltas, treeFirst \in BOOLEAN : SceneFrame(delta, treeFirst)

SpecBoundary == Init /\ [][NextBoundary]_vars

(***************************************************************************)
(* The builders: one action is one iteration of the builder's loop, with   *)
(* the values Math.random() returns in it.  Of the fields of an instance   *)
(* the model keeps those that make up its formed position.                 *)
(***************************************************************************)
\* buildLayeredOrnaments, one iteration: u is drawn for tRaw, v for y
BuildLayer(u, v) ==
  /\ layer.i < layer.count
  /\ LET t == LayerT(LayerTRaw(layer.i, u, layer.count), layer.tMin, layer.tMax,
                     layer.tPower)
     IN layer' = [layer EXCEPT !.i = layer.i + 1, !.prevT = layer.t, !.t = t,
                               !.y = LayerY(t, v)]
  /\ UNCHANGED <<ctrlVars, hostVars, histVars, trail, progress, orn, current, frames,
                 spiral, resVars, camVars, partVars>>

\* the layered field is built with the default heights, evenly (tPower 1)
\* or packed toward the bottom (tPower 2)
InitLayered ==
  /\ InitApp
  /\ mode = "FORMED"
  /\ InitScene("FORMED", [set |-> "gift", weight |-> OrnamentSets["gift"].wBase,
                          target |-> <<0, 0, 0>>, chaos |-> <<0, 0, 0>>])
  /\ InitResources(TRUE)
  /\ InitControls
  /\ InitParts
  /\ \E tPower \in {1, 2} :
       layer = LayerCall(LayerCount, Frac(8, 100), Frac(92, 100), tPower)
  /\ spiral = SpiralCall(SPIRAL_COUNT)

NextLayered == \E u \in Randoms, v \in Randoms : BuildLayer(u, v)

SpecLayered == InitLayered /\ [][NextLayered]_vars

\* SpiralLights builds its strands: red with phase 0 and radius scale 1.03,
\* gold with phase Pi and radius scale 0.98; one step is iteration i of both
BuildSpiral(u, v) ==
  /\ spiral.i < spiral.count
  /\ spiral' = [spiral EXCEPT
                  !.i = spiral.i + 1,
                  !.red = SpiralPoint(spiral.i, spiral.count, 0, Frac(103, 100), u),
                  !.gold = SpiralPoint(spiral.i, spiral.count, Pi, Frac(98, 100), v)]
  /\ UNCHANGED <<ctrlVars, hostVars, histVars, trail, progress, orn, current, frames,
                 layer, resVars, camVars, partVars>>

NextSpiral == \E u \in Randoms, v \in Randoms : BuildSpiral(u, v)

SpecSpiral == Init /\ [][NextSpiral]_vars

(***************************************************************************)
(* Properties of the gesture debounce.                                     *)
(***************************************************************************)
\* the number of consecutive processed callbacks ending at callback k that
\* saw a hand with the classification of callback k
RECURSIVE StreakAt(_, _)
StreakAt(s, k) ==
  IF k = 0 \/ ~s[k].hand \/ ~s[k].live THEN 0
  ELSE IF k > 1 /\ s[k - 1].hand /\ s[k - 1].live /\ s[k - 1].g = s[k].g
       THEN 1 + StreakAt(s, k - 1)
       ELSE 1

\* the gesture onGesture carried before its j-th call
EmittedBefore(j) == IF j = 1 THEN "unknown" ELSE emits[j - 1].g

\* C1: onGesture(g) is called at a callback only if that result has a hand,
\* g is open or closed, g was the classification of at least
\* MIN_GESTURE_FRAMES consecutive callbacks with no hand loss in between,
\* and g differs from the gesture emitted last.
C1_EmitOnlyStableNew ==
  \A j \in 1..Len(emits) :
    LET e == emits[j] IN
      /\ e.at \in 1..Len(log)
      /\ log[e.at].hand
      /\ log[e.at].live
      /\ e.g = log[e.at].g
      /\ e.g \in {"open", "closed"}
      /\ StreakAt(log, e.at) >= MIN_GESTURE_FRAMES
      /\ e.g # EmittedBefore(j)

C1_Witness ==
  /\ Len(emits) = 2
  /\ emits[1].g = "open"
  /\ emits[2].g = "closed"
  /\ \E k \in 1..Len(log) : log[k].hand /\ log[k].g = "unknown"

\* the classifications of the debounce scenario
Scenario == <<"open", "open", "closed", "open", "open", "open">>

\* the first n callbacks were the first n of the scenario, each with a hand
FedScenario(n) ==
  /\ Len(log) >= n
  /\ \A i \in 1..n : log[i].hand /\ log[i].live /\ log[i].g = Scenario[i]

\* C2: from the initial gesture state, the classifications open, open,
\* closed, open, open, open with a hand in every callback produce exactly
\* one onGesture call, carrying open, at the sixth callback.
C2_ScenarioEmitsOnce ==
  \A n \in 0..Len(Scenario) :
    (Len(log) = n \/ n = Len(Scenario)) /\ FedScenario(n) =>
      SelectSeq(emits, LAMBDA e : e.at <= n) =
        IF n < Len(Scenario) THEN <<>>
        ELSE <<[at |-> Len(Scenario), g |-> "open"]>>

C2_Witness ==
  /\ Len(log) = Len(Scenario)
  /\ FedScenario(Len(Scenario))
  /\ emits = <<[at |-> Len(Scenario), g |-> "open"]>>
  /\ lastGestureRef = "open"

\* C3: two successive onGesture calls never carry the same gesture.
C3_NoRepeatedEmit ==
  \A j \in 1..Len(emits) : j > 1 => emits[j].g # emits[j - 1].g

\* a gesture emitted, the hand lost, and the same gesture stable again
C3_Witness ==
  /\ Len(emits) = 1
  /\ \E k \in 1..Len(log) : k > emits[1].at /\ log[k].live /\ ~log[k].hand
  /\ log[Len(log)].g = emits[1].g
  /\ StreakAt(log, Len(log)) >= MIN_GESTURE_FRAMES

\* the last callback was processed and its result had no hand
LastLostHand ==
  /\ Len(log) > 0
  /\ log[Len(log)].live
  /\ ~log[Len(log)].hand

\* C4: a result without a hand sets stableFrameCount to 0 and stableGesture
\* to unknown in that callback, whatever the streak was, and emits the
\* neutral movement.
C4_HandLossResets ==
  LastLostHand =>
    /\ stableFramesRef = 0
    /\ stableGestureRef = "unknown"
    /\ moveAt = Len(log)
    /\ handRef = NeutralMove

\* the hand is lost right after a gesture became stable
C4_Witness ==
  /\ LastLostHand
  /\ Len(log) > MIN_GESTURE_FRAMES
  /\ StreakAt(log, Len(log) - 1) >= MIN_GESTURE_FRAMES
  /\ stableFramesRef = 0

\* C5 (as stated): a result without a hand resets every field of the
\* gesture state, lastGesture included.
C5_HandLossResetsAll ==
  LastLostHand =>
    /\ stableFramesRef = 0
    /\ stableGestureRef = "unknown"
    /\ activeRef = FALSE
    /\ lastGestureRef = "unknown"

\* C5 (amended): a result without a hand resets stableGesture,
\* stableFrameCount and the active flag, and leaves lastGesture, the gesture
\* emitted last, as it was.
C5_HandLossKeepsLast ==
  [][(Len(log') = Len(log) + 1 /\ Last(log').live /\ ~Last(log').hand) =>
       /\ stableFramesRef' = 0
       /\ stableGestureRef' = "unknown"
       /\ activeRef' = FALSE
       /\ lastGestureRef' = lastGestureRef]_vars

C5_Witness ==
  /\ LastLostHand
  /\ Len(emits) > 0
  /\ emits[Len(emits)].at = Len(log) - 1
  /\ lastGestureRef = "open"
  /\ stableGestureRef = "unknown"

\* the mode a stable gesture stands for
ModeOf(gesture) == IF gesture = "open" THEN "CHAOS" ELSE "FORMED"

\* this step is a processed callback that ends with a hand classified g for
\* at least MIN_GESTURE_FRAMES consecutive callbacks, g open or closed
StableCallback ==
  /\ Len(log') = Len(log) + 1
  /\ Last(log').live
  /\ Last(log').hand
  /\ Last(log').g \in {"open", "closed"}
  /\ StreakAt(log', Len(log')) >= MIN_GESTURE_FRAMES

After(i) == IF i = Len(trail) THEN mode ELSE trail[i + 1].before

\* C7: an open gesture event sets the mode to CHAOS and a closed one to
\* FORMED whatever the mode was, so that a repeated event changes nothing,
\* and an unknown gesture leaves the mode unchanged.
C7_GestureSetsMode ==
  \A i \in 1..Len(trail) :
    trail[i].kind = "gesture" =>
      /\ trail[i].arg = "open" => After(i) = "CHAOS"
      /\ trail[i].arg = "closed" => After(i) = "FORMED"
      /\ trail[i].arg = "unknown" => After(i) = trail[i].before
      /\ (i > 1 /\ trail[i - 1] = [trail[i] EXCEPT !.before = trail[i - 1].before])
           => After(i) = After(i - 1)

C7_Witness ==
  /\ Len(trail) = 3
  /\ trail[1] = [kind |-> "gesture", arg |-> "open", before |-> "FORMED",
                 prevented |-> FALSE]
  /\ trail[2] = [kind |-> "gesture", arg |-> "open", before |-> "CHAOS",
                 prevented |-> FALSE]
  /\ trail[3].kind = "gesture"
  /\ trail[3].arg = "unknown"
  /\ mode = "CHAOS"

\* C8: a keydown of Space flips the mode and suppresses the default action,
\* two Space presses in a row restore the mode, and a keydown of another
\* key leaves the mode unchanged.
C8_SpaceToggles ==
  \A i \in 1..Len(trail) :
    trail[i].kind = "key" =>
      /\ trail[i].arg = "Space" =>
           /\ After(i) # trail[i].before
           /\ After(i) \in TreeMode
           /\ trail[i].prevented
      /\ trail[i].arg # "Space" => After(i) = trail[i].before
      /\ (i > 1 /\ trail[i].arg = "Space" /\ trail[i - 1].kind = "key"
            /\ trail[i - 1].arg = "Space") => After(i) = trail[i - 1].before

C8_Witness ==
  /\ Len(trail) = 3
  /\ trail[1].kind = "key" /\ trail[1].arg = "Space" /\ trail[1].before = "CHAOS"
  /\ trail[2].kind = "key" /\ trail[2].arg = "Space"
  /\ trail[3].kind = "key" /\ trail[3].arg = "Enter"
  /\ mode = "CHAOS"

(***************************************************************************)
(* Properties of the ornament animation.                                   *)
(***************************************************************************)
\* the least ease factor a frame can apply to instance o
SlowEase(o) ==
  LET eases == {Ease(o.set, o.weight, delta) : delta \in Deltas}
  IN CHOOSE e \in eases : \A f \in eases : e <= f

\* the distance below which an ease step of instance o rounds to nothing:
\* the resolution to which the arithmetic can converge
Resolution(o) == Unit \div (2 * SlowEase(o)) + 1

\* p is within eps of q in every coordinate
Near(p, q, eps) == \A c \in DOMAIN p : Abs(p[c] - q[c]) <= eps

\* C9: with progress held at 1 and frames of positive delta, current[i]
\* converges to chaos[i], to within the resolution of the arithmetic.
C9_ChaosConverges ==
  [](progress = Unit) => <>[]Near(current, orn.chaos, Resolution(orn))

C9_Witness ==
  /\ progress = Unit
  /\ current # orn.target
  /\ ~Near(orn.target, orn.chaos, 100 * Resolution(orn))
  /\ Near(current, orn.chaos, Resolution(orn))

\* no frame moves the instance any more: it has reached its limit
Settled ==
  \A delta \in Deltas : EaseStep(orn, current, progress, delta) = current

\* C10: with progress held at 0 and frames of positive delta, current[i]
\* converges to target[i] whatever the weight of the instance: where the
\* instance comes to rest at progress 0 is within the resolution of the
\* arithmetic of target[i].
C10_FormedConverges ==
  (mode = "FORMED" /\ progress = 0 /\ Settled) =>
    Near(current, orn.target, Resolution(orn))

\* b lies between a and c, ends included
Between(a, b, c) == (a <= b /\ b <= c) \/ (c <= b /\ b <= a)

\* this step renders a frame
FrameStep == frames' # frames

\* C11: for every frame delta and every weight the ease factor lies strictly
\* between 0 and 1, so one ease step toward the blended target of that frame
\* never passes it and never increases the distance to it.
C11_EaseNeverOvershoots ==
  [][FrameStep =>
       /\ \A delta \in Deltas :
            /\ Ease(orn.set, orn.weight, delta) > 0
            /\ Ease(orn.set, orn.weight, delta) < Unit
       /\ \E progressValue \in {progress, progress'} :
            \A c \in DOMAIN current :
              LET goal == Blended(orn, progressValue)[c]
              IN /\ Between(current[c], current'[c], goal)
                 /\ Abs(current'[c] - goal) <= Abs(current[c] - goal)]_vars

\* an instance on its way: it has left its formed position and has not
\* reached the blended target
C11_Witness ==
  /\ frames >= 2
  /\ mode = "CHAOS"
  /\ current # orn.target
  /\ ~Near(current, Blended(orn, progress), Resolution(orn))

\* C12: a mode change leaves progress and current[i] as they are; they
\* change only in frames, and a frame moves each of them toward its target
\* of that frame by less than its distance to it, so that no toggle makes
\* current[i] jump.
C12_ModeChangeContinuous ==
  [][/\ ~FrameStep => progress' = progress /\ current' = current
     /\ FrameStep =>
          /\ mode' = mode
          /\ Abs(progress' - progress) <= Abs(ProgressTarget(mode) - progress)
          /\ progress # ProgressTarget(mode) => progress' # ProgressTarget(mode)
          /\ \E progressValue \in {progress, progress'} :
               \A c \in DOMAIN current :
                 LET goal == Blended(orn, progressValue)[c]
                 IN /\ Abs(current'[c] - current[c]) <= Abs(goal - current[c])
                    /\ current[c] # goal => current'[c] # goal]_vars

\* the mode was toggled twice before the transition completed
C12_Witness ==
  /\ mode = "FORMED"
  /\ keySinceEmit
  /\ frames >= 2
  /\ progress > 0
  /\ progress < Unit
  /\ current # orn.target

\* C13: progress stays within [0, 1]; a frame moves it toward the pole of
\* the current mode without passing it, and a mode change leaves it as it
\* is, so that the pursuit reverses from the current value.
C13_ProgressBounded ==
  /\ [](progress >= 0 /\ progress <= Unit)
  /\ [][/\ FrameStep => Between(progress, progress', ProgressTarget(mode))
        /\ mode' # mode => progress' = progress]_vars

\* a toggle in mid-transition: progress is on its way back to 0
C13_Witness ==
  /\ mode = "FORMED"
  /\ frames = 3
  /\ progress > 0
  /\ progress < Unit \div 2

(***************************************************************************)
(* Properties of the camera baseline.                                      *)
(***************************************************************************)
\* C14: whenever a frame uses a baseline, it is the pair of angles the
\* camera had when the hand last became active, under any interleaving of
\* callbacks and frames: after inactive, active, move, inactive, active
\* again, the baseline is that of the second activation and not the first.
C14_BaselineOfLastActivation ==
  [][(frames' # frames /\ controlsRef /\ handRef.active) =>
       baseAnglesRef' = activation]_vars

(***************************************************************************)
(* Properties of the controller's life cycle.                              *)
(***************************************************************************)
\* C15: the host's handActive, which switches auto-rotation off, equals
\* handRef.active, which switches the gesture-driven rotation on, after
\* every inference callback and after a failure start() has handled.
C15_RotationExclusive == handActive = handRef.active

\* the hand was lost and has come back
C15_Witness ==
  /\ Len(log) >= 3
  /\ Last(log).live /\ Last(log).hand
  /\ log[Len(log) - 1].live /\ ~log[Len(log) - 1].hand
  /\ log[Len(log) - 2].live /\ log[Len(log) - 2].hand
  /\ handActive

\* a keydown of Space that flips the mode
SpaceToggles == KeyDown("Space") /\ UNCHANGED trail /\ mode' = Flip(mode)

\* C16: when creating or starting the detector or the camera throws inside
\* start(), the controller reports handActive = false, emits the neutral
\* movement and sets the status to 'Camera error'; the host keeps running,
\* and while it is mounted a Space keydown still toggles the mode.
C16_FailureHandled ==
  (pc = "failed" /\ ~cancelled) =>
    /\ handActive = FALSE
    /\ handRef = NeutralMove
    /\ status = "Camera error"
    /\ ~startedRef
    /\ keyListener
    /\ ENABLED SpaceToggles

\* the camera start was rejected, and Space was pressed
C16_Witness ==
  /\ pc = "failed"
  /\ ~cancelled
  /\ hands = "open"
  /\ camera = "created"
  /\ keySinceEmit
  /\ mode = "CHAOS"

\* start() has passed the video element: it has got to the detector
ReachedDetector == pc \in {"await", "running", "failed"}

\* C17: start() re-schedules itself only while the video element is missing
\* and the controller is mounted; once it has got to the detector it is not
\* attempted again, whether it succeeded or failed: the detector is created
\* at most once, the status never leaves 'Camera error', and after teardown
\* the deferred wait ends without another attempt.
C17_NoRetry ==
  [][/\ waits' # waits => (waits' = waits + 1 /\ ~videoRef /\ ~cancelled /\ ~ReachedDetector)
     /\ ReachedDetector => (ReachedDetector' /\ waits' = waits)
     /\ hands # "none" => hands' \in {hands, "closed"}
     /\ camera # "none" => camera' \in {camera, "stopped"}
     /\ status = "Camera error" => status' = "Camera error"
     /\ (cancelled /\ pc = "wait") =>
          (pc' \in {"wait", "stopped"} /\ hands' = "none" /\ status' = status)
     /\ pc = "stopped" => pc' = "stopped"]_vars

\* start() waited for the video element, then ran and failed
C17_Witness ==
  /\ waits >= 2
  /\ videoRef
  /\ pc = "failed"
  /\ status = "Camera error"
  /\ ~cancelled

\* C18: after teardown nothing start() acquired is still held, at whichever
\* point teardown interleaves with start(): the camera is stopped, the
\* stream's tracks are stopped and the detector is closed.
C18_TeardownReleases ==
  cancelled =>
    /\ camera # "created"
    /\ stream # "live"
    /\ hands # "open"

(***************************************************************************)
(* Properties of the builders.                                             *)
(***************************************************************************)
\* the bounds of stratum k of the call's count equal strata of [tMin, tMax]
StratumLow(k) == lerp(layer.tMin, layer.tMax, RDiv(k * Unit, layer.count))

\* C19: in a layered field of count 50 built with tPower 1, instance i
\* takes its t from the i-th of 50 equal strata of [tMin, tMax], so t is
\* non-decreasing in i, and its formed y is within the jitter bound 0.06
\* of t * H - H / 2.
C19_LayeredMonotonic ==
  (layer.tPower = 1 /\ layer.i >= 1) =>
    /\ StratumLow(layer.i - 1) <= layer.t
    /\ layer.t <= StratumLow(layer.i)
    /\ layer.i >= 2 => layer.prevT <= layer.t
    /\ Abs(layer.y - (RDiv(layer.t * TREE_HEIGHT, Unit) - TREE_HEIGHT \div 2))
         <= Frac(6, 100)

\* the whole field is built, the last instance at the top of its stratum
C19_Witness ==
  /\ layer.tPower = 1
  /\ layer.i = layer.count
  /\ layer.prevT < layer.t
  /\ layer.y # RDiv(layer.t * TREE_HEIGHT, Unit) - TREE_HEIGHT \div 2

\* the horizontal parts of p and q: their inner product and their area
Dot(p, q) == p[1] * q[1] + p[3] * q[3]

Cross(p, q) == p[1] * q[3] - p[3] * q[1]

\* p and q lie on one line through the tree axis, to within the rounding of
\* their coordinates
OnOneLine(p, q) ==
  Abs(Cross(p, q)) <= 4 * (Abs(p[1]) + Abs(p[3]) + Abs(q[1]) + Abs(q[3])) + 32

CountOpen ==
  Cardinality({k \in 1..4 : FingerExtended(landmarks.fingers[k])})
    + (IF ThumbExtended(landmarks.label, landmarks.thumbTip, landmarks.thumbIp)
       THEN 1 ELSE 0)

\* The classification by count first and by the ratio of the mean fingertip
\* distance to `palm` for two or three open fingers: above 1.65 open, below
\* 1.15 closed, unknown from 1.15 to 1.65.
CountThenRatio(palm) ==
  LET mean == avgTipDistance(landmarks)
  IN IF CountOpen >= 4 THEN "open"
     ELSE IF CountOpen <= 1 THEN "closed"
     ELSE IF mean * Unit > palm * Frac(165, 100) THEN "open"
     ELSE IF mean * Unit < palm * Frac(115, 100) THEN "closed"
     ELSE "unknown"

\* C21, as stated, with the ratio the specification describes: the mean
\* fingertip distance normalized by the wrist-to-middle-knuckle distance.
\* The gesture returned for a hand is 'open' for four or five open fingers,
\* 'closed' for none or one, and follows that ratio for two or three.
C21_CountThenRatio ==
  (classified.returned /\ landmarks.present)
    => classified.gesture = CountThenRatio(landmarks.palm)

\* C21, amended: the same classification, where the ratio is taken against
\* the palm size the code uses, the wrist-to-middle-knuckle distance or 0.08
\* when that distance is smaller.
C21_CountThenFlooredRatio ==
  (classified.returned /\ landmarks.present)
    => classified.gesture = CountThenRatio(Max(Frac(8, 100), landmarks.palm))

\* a far hand with two or three open fingers whose fingertip distances are
\* more than 1.65 times the knuckle distance is classified 'unknown'
C21_Witness ==
  /\ classified.returned
  /\ landmarks.present
  /\ CountOpen \in {2, 3}
  /\ landmarks.palm < Frac(8, 100)
  /\ avgTipDistance(landmarks) * Unit > landmarks.palm * Frac(165, 100)
  /\ classified.gesture = "unknown"

(***************************************************************************)
(* PhotoOrnaments: the rotation of a photo across the billboard threshold  *)
(***************************************************************************)
\* the values of progress.current a callback of this step's frame may read
ProgressRead == {progress, progress'}

\* `to` is `from` after one damped step toward the rotation a photo pursues
\* in this step's frame
PursuitStep(from, to) ==
  \E progressValue \in ProgressRead, delta \in DrawnDeltas, facing \in Facings :
    to = DampEuler(from,
                   PhotoTarget(item, progressValue,
                               Wobble(time', Frac(6, 10), item.phase, Frac(8, 100),
                                      progressValue),
                               facing),
                   PhotoLambda(progressValue), delta)

\* C22: in every frame a photo is drawn as a billboard exactly when the
\* progress its callback reads is above 0.75, and in the first frame after
\* the branch has changed, in either direction, the rotation it is drawn
\* with is the rotation it was drawn with in the frame before, moved by one
\* damped pursuit step.
C22_BranchChangeContinuous ==
  [][(FrameStep /\ item.set = "photo")
       => /\ \E progressValue \in ProgressRead :
               drawn'.billboard = Billboard(progressValue)
          /\ (frames >= 1 /\ drawn'.billboard # drawn.billboard)
               => PursuitStep(drawn.rotation, drawn'.rotation)]_vars

C24_FrameWritesCurrentOnly ==
  [][/\ [item' EXCEPT !.current = item.current,
                      !.currentRotation = item.currentRotation] = item
     /\ item.set # "photo" => item'.currentRotation = item.currentRotation
     /\ FrameStep =>
          \E progressValue \in ProgressRead, delta \in DrawnDeltas :
            item'.current = EaseStep(item, item.current, progressValue, delta)
     /\ progress' # progress =>
          /\ FrameStep
          /\ \E delta \in DrawnDeltas : progress' = ProgressStep(progress, mode, delta)]_vars

\* an instance on its way to the chaos position is drawn away from the
\* position it stores, by its wobble or swirl
C24_Witness ==
  /\ frames >= 2
  /\ item.current # item.target
  /\ drawn.position # item.current
  /\ progress > 0

(***************************************************************************)
(* The stored position between its two poles                               *)
(***************************************************************************)
\* the offset of p from the instance's target, along axis c
FromTarget(p, c) == p[c] - item.target[c]

\* C25: the stored position of an instance is a convex combination of its
\* target and its chaos position.  It starts at the target; on every axis
\* it lies between the two, and its offsets from the target on any two axes
\* are in the proportion of the offsets of the chaos position, to within the
\* rounding of the coordinates.
C25_CurrentOnSegment ==
  /\ frames = 0 => item.current = item.target
  /\ \A c \in 1..3 : Between(item.target[c], item.current[c], item.chaos[c])
  /\ \A c, d \in 1..3 :
       Abs(FromTarget(item.current, c) * FromTarget(item.chaos, d)
             - FromTarget(item.current, d) * FromTarget(item.chaos, c))
         <= 4 * (Abs(FromTarget(item.chaos, c)) + Abs(FromTarget(item.chaos, d)))

\* an instance whose poles differ on two axes is on its way between them
C25_Witness ==
  /\ frames >= 2
  /\ FromTarget(item.chaos, 1) # 0
  /\ FromTarget(item.chaos, 3) # 0
  /\ 4 * Abs(FromTarget(item.current, 1)) > Abs(FromTarget(item.chaos, 1))
  /\ 4 * Abs(FromTarget(item.current, 1)) < 3 * Abs(FromTarget(item.chaos, 1))

(***************************************************************************)
(* The camera baseline, frame by frame                                     *)
(***************************************************************************)
\* C26: a frame with the controls attached leaves the baseline null exactly
\* when it reads handRef.active as false; a frame that reads it as true
\* captures the camera's angles when there is no baseline, which is the
\* case in the first frame of a run of such frames, and keeps the baseline
\* it finds in the later frames of the run; a frame that reads it as false
\* sets no camera angle; and nothing but a frame changes the baseline.
C26_BaselineFollowsFrames ==
  [][/\ (FrameStep /\ controlsRef) =>
          /\ (baseAnglesRef' = Null) <=> ~handRef.active
          /\ (handRef.active /\ baseAnglesRef = Null)
               => baseAnglesRef' = Angles(azimuth, polar)
          /\ (handRef.active /\ baseAnglesRef # Null)
               => baseAnglesRef' = baseAnglesRef
          /\ ~handRef.active => (azimuth' = azimuth /\ polar' = polar)
     /\ ~FrameStep => baseAnglesRef' = baseAnglesRef]_vars

\* the third frame of a run that sees the hand: the camera has moved and the
\* baseline is still the one captured before it moved
C26_Witness ==
  /\ controlsRef
  /\ handRef.active
  /\ frames >= 3
  /\ baseAnglesRef # Null
  /\ baseAnglesRef.azimuth = 0
  /\ azimuth # 0

(***************************************************************************)
(* The stable-frame counter                                                *)
(***************************************************************************)
\* this step is a processed callback with a hand
HandCallback == log' # log /\ Last(log').live /\ Last(log').hand

\* C27: in a callback with a hand the counter becomes 1 when the
\* classification differs from stableGesture and grows by exactly 1
\* otherwise, so that it is the length of the classification's streak with
\* the callback that began it counted; onGesture is not called before the
\* third callback of a streak, and is called at the third when the gesture
\* is open or closed and differs from the one emitted last.
C27_CounterOneIndexed ==
  [][HandCallback =>
       LET gesture == Last(log').g
       IN /\ stableFramesRef' =
               (IF gesture # stableGestureRef THEN 1 ELSE stableFramesRef + 1)
          /\ stableFramesRef' = StreakAt(log', Len(log'))
          /\ emits' # emits => stableFramesRef' >= 3
          /\ (/\ stableFramesRef' = 3
              /\ gesture \in {"open", "closed"}
              /\ gesture # lastGestureRef) => emits' # emits]_vars

\* a gesture fired at the third callback of a streak that began with a
\* change of the classification of a hand already present
C27_Witness ==
  \E j \in 1..Len(emits) :
    /\ emits[j].at >= 4
    /\ StreakAt(log, emits[j].at) = 3
    /\ log[emits[j].at - 3].hand
    /\ log[emits[j].at - 3].live

(***************************************************************************)
(* The movement state the render loop reads                                *)
(***************************************************************************)
\* the movement states onMove can deliver for the palm centres of the model
Delivered == {NeutralMove} \cup {MoveOf(center) : center \in Centers}

\* C28: handRef, which a frame may read in any state, has x and y within
\* [-1, 1], has x = 0 and y = 0 when it is not active, is with all three
\* fields one movement state that onMove delivered, and is active exactly
\* when the callback that delivered it had a hand.
C28_MoveStateWhole ==
  /\ handRef.x \in -Unit..Unit
  /\ handRef.y \in -Unit..Unit
  /\ ~handRef.active => (handRef.x = 0 /\ handRef.y = 0)
  /\ handRef \in Delivered
  /\ handRef.active = (moveAt > 0 /\ log[moveAt].hand)

\* a hand whose palm centre lies outside the image, after a hand inside it
\* was lost: the movement is clamped to the corner
C28_Witness ==
  /\ Len(log) >= 3
  /\ moveAt = Len(log)
  /\ log[Len(log) - 1].live /\ ~log[Len(log) - 1].hand
  /\ log[Len(log) - 2].live /\ log[Len(log) - 2].hand
  /\ handRef = [x |-> Unit, y |-> -Unit, active |-> TRUE]

(***************************************************************************)
(* The angles the camera is steered to                                     *)
(***************************************************************************)
\* this step is a frame that steers the camera
SteeringFrame == FrameStep /\ controlsRef /\ handRef.active

\* C29: in a frame that steers, with the baseline the frame uses, the polar
\* target lies within [minPolarAngle, maxPolarAngle] and the azimuth target
\* is the baseline's azimuth less 0.75 times the hand's x, at most 0.75 rad
\* from the baseline; the frame moves the camera's angles toward these
\* targets and not past them.
C29_TargetsWithinRange ==
  [][SteeringFrame =>
       LET base == baseAnglesRef'
           targetAzimuth == TargetAzimuth(base, handRef.x)
           targetPolar == TargetPolar(base, handRef.y)
       IN /\ base.captured
          /\ targetPolar >= Frac(55, 100)
          /\ targetPolar <= Frac(145, 100)
          /\ targetAzimuth = base.azimuth - RDiv(handRef.x * Frac(75, 100), Unit)
          /\ Abs(targetAzimuth - base.azimuth) <= Frac(75, 100)
          /\ Between(azimuth, azimuth', targetAzimuth)
          /\ Between(polar, polar', targetPolar)]_vars

\* the hand is below the image centre after the camera was steered: the
\* baseline's polar angle with the hand's share added exceeds maxPolarAngle
C29_Witness ==
  /\ frames >= 2
  /\ controlsRef
  /\ handRef.active
  /\ baseAnglesRef.captured
  /\ baseAnglesRef.polar + RDiv(handRef.y * POLAR_RANGE, Unit) > maxPolarAngle
  /\ baseAnglesRef.azimuth # 0
  /\ polar > Frac(1257, 1000)


(***************************************************************************)
(* C30: once the effect cleanup of the HandGestureController has run, the  *)
(* controller calls none of the host's onGesture, onMove and               *)
(* onActiveChange props any more, whether a late inference result arrives  *)
(* or a pending start() completes or fails after the teardown.  The catch  *)
(* block of start() does not read `cancelled`, so a camera start that      *)
(* rejects after the teardown calls onActiveChange and onMove.             *)
(***************************************************************************)
C30_NoCallbackAfterTeardown == late = {}

====
